---- MODULE Spec2Model ----
(***************************************************************************)
(* Model of the ColorGame component (src/src/components/color-game.tsx).   *)
(*                                                                         *)
(* The component's state is the six useState cells plus the browser's      *)
(* queue of pending setTimeout callbacks.  Every handler (the mount        *)
(* effect, a click on a colour button, a click on New Game, a timer        *)
(* callback) runs to completion and is one action.  Math.random() is an    *)
(* input: each Math.floor(Math.random() * N) is a draw from 0..N-1, and    *)
(* the actions take their draws from small sample sets.                    *)
(***************************************************************************)
EXTENDS Integers, Sequences, FiniteSets, TLC

VARIABLES
    targetColor,    \* useState('')               line 7
    colorOptions,   \* useState<string[]>([])     line 8
    score,          \* useState(0)                line 9
    gameStatus,     \* useState('')               line 10
    isAnimating,    \* useState(false)            line 11
    textColor,      \* useState('text-gray-800')  line 12
    timers,         \* pending setTimeout callbacks, oldest first
    mounted,        \* the mount effect (lines 64-66) has run
    baseHue,        \* resetGame's local baseHue of the current round
    genColors,      \* the set of generateRandomColor's locals over the calls
                    \* made by the resetGame that produced the current round
    rejectedColors, \* the colours that call's loop generated and did not push
    roundScored,    \* number of setScore(prev => prev + 1) calls made on the
                    \* current round (since the last resetGame)
    lastEvent,      \* the handler that ran last, with its argument
    loopOptions,    \* resetGame's local options while its loop runs (LoopSpec)
    loopColor,      \* the loop's local newColor of the last iteration
    pc              \* "idle": no resetGame in progress; "loop": resetGame is
                    \* at the while of line 37; "done": it has returned

\* The locals of a resetGame call in progress.  Spec runs resetGame as one
\* step and leaves them alone; LoopSpec runs its loop one iteration a step.
loopVars == <<loopOptions, loopColor, pc>>

vars == <<targetColor, colorOptions, score, gameStatus, isAnimating,
          textColor, timers, mounted, baseHue, genColors, rejectedColors,
          roundScored, lastEvent, loopOptions, loopColor, pc>>

\* The six useState cells.
cells == <<targetColor, colorOptions, score, gameStatus, isAnimating,
           textColor>>

-----------------------------------------------------------------------------
(* Bounds of the exploration.                                              *)

MaxScore == 2       \* correct guesses are explored while score < MaxScore
MaxTimers == 2      \* guesses are explored while fewer timers are pending
MaxDraws == 12      \* Math.random triples available to one decoy loop
MaxLoopDraws == 6   \* distinct draws an iteration of LoopSpec chooses from

(* Program constants.                                                      *)

HueRange == 360
SatBase == 70
SatRange == 30
LightBase == 45
LightRange == 20
VariationRange == 30
VariationOffset == 15
NumOptions == 6

\* The status messages are held as sequences of UTF-16 code units, since a
\* string of this language is ASCII only and the messages are not.

\* The empty message '' of lines 10 and 50.
NoMsg == <<>>

\* 'Correct! Well done! ' and the 4 characters U+00F0 U+0178 U+017D U+2030
\* that follow it in line 76: 24 code units.
CorrectMsg ==
    <<67, 111, 114, 114, 101, 99, 116, 33, 32, 87,
       101, 108, 108, 32, 100, 111, 110, 101, 33, 32,
       240, 376, 381, 8240>>

\* 'Wrong guess! Try again! ' and the 4 characters U+00F0 U+0178 U+02DC U+00A2
\* that follow it in line 84: 28 code units.
WrongMsg ==
    <<87, 114, 111, 110, 103, 32, 103, 117, 101, 115,
       115, 33, 32, 84, 114, 121, 32, 97, 103, 97,
       105, 110, 33, 32, 240, 376, 732, 162>>

Gray == "text-gray-800"
Green == "text-green-500"
Red == "text-red-500"

(* Sampled values of Math.floor(Math.random() * N).                        *)

HueDraws == {0, 200, 359}       \* of 0..HueRange-1
SatDraws == {0, 29}             \* of 0..SatRange-1
LightDraws == {0, 19}           \* of 0..LightRange-1

\* The draws of one generateSimilarColor call, <<variation, sat, light>>,
\* variation of 0..VariationRange-1.
AllDraws ==
    << <<0, 0, 0>>,   <<15, 0, 0>>,   <<29, 0, 0>>,
       <<0, 29, 19>>, <<15, 29, 19>>, <<29, 29, 19>>,
       <<0, 0, 19>>,  <<15, 0, 19>>,  <<29, 0, 19>>,
       <<0, 29, 0>>,  <<15, 29, 0>>,  <<29, 29, 0>> >>

\* A stream of MaxDraws decoy draws: start at offset o of AllDraws, advance
\* by stride st, and return every draw rep times in a row.
drawStream(o, st, rep) ==
    [i \in 1..MaxDraws |->
        AllDraws[((o + ((i - 1) \div rep) * st) % Len(AllDraws)) + 1]]

DrawStreams == { drawStream(0, 1, 1), drawStream(0, 5, 2) }

\* Sampled outcomes of the comparator-driven sort: shuffled[i] = options[p[i]].
ShufflePerms ==
    { <<1, 2, 3, 4, 5, 6>>, <<3, 1, 5, 2, 6, 4>> }

-----------------------------------------------------------------------------
(* Pure helpers.                                                           *)

\* The template literal of line 20.
hsl(hue, saturation, lightness) ==
    "hsl(" \o ToString(hue) \o ", " \o ToString(saturation) \o "%, "
           \o ToString(lightness) \o "%)"

generateRandomColorLocalsSwapped(hue, rs, rl) ==
    [hue |-> hue, saturation |-> LightBase + rs, lightness |-> SatBase + rl]

\* generateRandomColor(baseHue) with baseHue supplied, as at both call sites:
\* rs and rl are the two Math.floor(Math.random() * N) draws.
generateRandomColorLocals(hue, rs, rl) ==
    [hue |-> hue, saturation |-> SatBase + rs, lightness |-> LightBase + rl]

generateRandomColor(hue, rs, rl) ==
    LET loc == generateRandomColorLocals(hue, rs, rl)
    IN  hsl(loc.hue, loc.saturation, loc.lightness)

similarHueNoWrap(base, rv) == base + (rv - VariationOffset)

\* The hue generateSimilarColor passes on: lines 25-26.
similarHue(base, rv) ==
    (base + (rv - VariationOffset) + HueRange) % HueRange

generateSimilarColor(base, draw) ==
    generateRandomColor(similarHue(base, draw[1]), draw[2], draw[3])

includesNever(arr, color) == FALSE

includesAlways(arr, color) == TRUE

\* Array.prototype.includes on an array of strings.
includes(arr, color) == \E i \in 1..Len(arr) : arr[i] = color

\* The while loop of lines 37-42: st.options is the array, st.log the
\* locals of the generateRandomColor calls made so far and st.rejected the
\* colours that were generated and not pushed.
RECURSIVE decoyLoop(_, _, _)
decoyLoop(st, base, draws) ==
    IF Len(st.options) >= NumOptions \/ draws = <<>>
    THEN st
    ELSE LET d == Head(draws)
             newColor == generateSimilarColor(base, d)
             loc == generateRandomColorLocals(similarHue(base, d[1]), d[2], d[3])
             log == st.log \cup {loc}
         IN  IF ~includes(st.options, newColor)
             THEN decoyLoop([options |-> Append(st.options, newColor),
                             log |-> log, rejected |-> st.rejected],
                            base, Tail(draws))
             ELSE decoyLoop([options |-> st.options, log |-> log,
                             rejected |-> st.rejected \cup {newColor}],
                            base, Tail(draws))

\* [...options].sort(() => Math.random() - 0.5) with outcome p.
shuffle(options, p) == [i \in 1..Len(options) |-> options[p[i]]]

isCorrectAlways(color, target) == TRUE

isCorrectNever(color, target) == FALSE

\* color === targetColor, line 73.
isCorrect(color, target) == color = target

nextScoreTwice(prev) == prev + 2

\* prev => prev + 1, line 75.
nextScore(prev) == prev + 1

resetScoreKeep(prev) == prev

\* setScore(0), line 57.
resetScore(prev) == 0

-----------------------------------------------------------------------------
(* The handlers.                                                           *)

Init ==
    /\ targetColor = ""
    /\ colorOptions = <<>>
    /\ score = 0
    /\ gameStatus = NoMsg
    /\ isAnimating = FALSE
    /\ textColor = Gray
    /\ timers = <<>>
    /\ mounted = FALSE
    /\ baseHue = 0
    /\ genColors = {}
    /\ rejectedColors = {}
    /\ roundScored = 0
    /\ lastEvent = [op |-> "init", color |-> "", animating |-> FALSE]
    /\ loopOptions = <<>>
    /\ loopColor = ""
    /\ pc = "idle"

\* The values resetGame (lines 31-53) hands to the setters, with its random
\* draws as parameters; exited says whether the decoy loop left the while
\* within the draws of the stream.
resetGameResult(rh, rs, rl, stream, p) ==
    LET newTargetColor == generateRandomColor(rh, rs, rl)
        st == decoyLoop([options |-> <<newTargetColor>>,
                         log |-> {generateRandomColorLocals(rh, rs, rl)},
                         rejected |-> {}],
                        rh, stream)
    IN  [exited |-> Len(st.options) = NumOptions,
         targetColor |-> newTargetColor,
         colorOptions |-> IF Len(st.options) = NumOptions
                          THEN shuffle(st.options, p) ELSE st.options,
         baseHue |-> rh,
         genColors |-> st.log,
         rejectedColors |-> st.rejected]

\* The results of resetGame over the sampled draws.
ResetResults ==
    { r \in { resetGameResult(rh, rs, rl, stream, p) :
                rh \in HueDraws, rs \in SatDraws, rl \in LightDraws,
                stream \in DrawStreams, p \in ShufflePerms } : r.exited }

\* resetGame without the setIsAnimating(false) of line 51.
resetGameKeepsAnimating(r) ==
    /\ targetColor' = r.targetColor
    /\ colorOptions' = r.colorOptions
    /\ gameStatus' = NoMsg
    /\ isAnimating' = isAnimating
    /\ textColor' = Gray
    /\ baseHue' = r.baseHue
    /\ genColors' = r.genColors
    /\ rejectedColors' = r.rejectedColors
    /\ roundScored' = 0

\* resetGame, lines 31-53: the setter calls of lines 48-52.
resetGame(r) ==
    /\ targetColor' = r.targetColor
    /\ colorOptions' = r.colorOptions
    /\ gameStatus' = NoMsg
    /\ isAnimating' = FALSE
    /\ textColor' = Gray
    /\ baseHue' = r.baseHue
    /\ genColors' = r.genColors
    /\ rejectedColors' = r.rejectedColors
    /\ roundScored' = 0

someResetGame == \E r \in ResetResults : resetGame(r)

\* The mount effect, lines 64-66.
Mount ==
    /\ ~mounted
    /\ mounted' = TRUE
    /\ someResetGame
    /\ lastEvent' = [op |-> "mount", color |-> "", animating |-> isAnimating]
    /\ UNCHANGED <<score, timers, loopVars>>

\* startNewGame, lines 56-59.
startNewGame ==
    /\ mounted
    /\ score' = resetScore(score)
    /\ someResetGame
    /\ lastEvent' = [op |-> "startNewGame", color |-> "",
                     animating |-> isAnimating]
    /\ UNCHANGED <<timers, mounted, loopVars>>

\* handleGuess without the early return of line 70.
handleGuessNoGuard(color) ==
    /\ mounted
    /\ lastEvent' = [op |-> "handleGuess", color |-> color,
                     animating |-> isAnimating]
    /\ Len(timers) < MaxTimers
    /\ isAnimating' = TRUE
    /\ IF isCorrect(color, targetColor)
       THEN /\ score < MaxScore
            /\ score' = nextScore(score)
            /\ gameStatus' = CorrectMsg
            /\ textColor' = Green
            /\ timers' = Append(timers, "advance")
            /\ roundScored' = roundScored + 1
       ELSE /\ gameStatus' = WrongMsg
            /\ textColor' = Red
            /\ timers' = Append(timers, "enable")
            /\ UNCHANGED <<score, roundScored>>
    /\ UNCHANGED <<targetColor, colorOptions, mounted, baseHue, genColors,
                   rejectedColors, loopVars>>

\* handleGuess, lines 69-91.
handleGuess(color) ==
    /\ mounted
    /\ lastEvent' = [op |-> "handleGuess", color |-> color,
                     animating |-> isAnimating]
    /\ IF isAnimating
       THEN UNCHANGED <<cells, timers, roundScored>>
       ELSE /\ Len(timers) < MaxTimers
            /\ isAnimating' = TRUE
            /\ IF isCorrect(color, targetColor)
               THEN /\ score < MaxScore
                    /\ score' = nextScore(score)
                    /\ gameStatus' = CorrectMsg
                    /\ textColor' = Green
                    /\ timers' = Append(timers, "advance")
                    /\ roundScored' = roundScored + 1
               ELSE /\ gameStatus' = WrongMsg
                    /\ textColor' = Red
                    /\ timers' = Append(timers, "enable")
                    /\ UNCHANGED <<score, roundScored>>
            /\ UNCHANGED <<targetColor, colorOptions>>
    /\ UNCHANGED <<mounted, baseHue, genColors, rejectedColors, loopVars>>

\* Arguments of handleGuess(color: string) that are no colour of the game:
\* the empty string, and components out of range.  The buttons of the
\* component pass candidates only; these are what any other caller of
\* handleGuess may pass, and line 73 compares them like any string.
MalformedColors == {"", "hsl(400, 120%, 10%)"}

\* A well-formed colour outside every candidate sequence of the model.
ForeignColor == "hsl(100, 80%, 50%)"

GuessColors ==
    {colorOptions[i] : i \in 1..Len(colorOptions)}
        \cup MalformedColors \cup {ForeignColor}

Guess == \E color \in GuessColors : handleGuess(color)

\* Both setTimeout calls use the same delay (1500 ms), so the callbacks run in
\* the order they were scheduled: only the head of timers can fire.

\* The callback of lines 78-81, 1500 ms after a correct guess.
AdvanceTimer ==
    /\ timers # <<>>
    /\ Head(timers) = "advance"
    /\ timers' = Tail(timers)
    /\ someResetGame
    /\ lastEvent' = [op |-> "advanceTimer", color |-> "",
                     animating |-> isAnimating]
    /\ UNCHANGED <<score, mounted, loopVars>>

\* The callback of lines 86-89, 1500 ms after a wrong guess.
EnableTimer ==
    /\ timers # <<>>
    /\ Head(timers) = "enable"
    /\ timers' = Tail(timers)
    /\ textColor' = Gray
    /\ isAnimating' = FALSE
    /\ lastEvent' = [op |-> "enableTimer", color |-> "",
                     animating |-> isAnimating]
    /\ UNCHANGED <<targetColor, colorOptions, score, gameStatus, mounted,
                   baseHue, genColors, rejectedColors, roundScored, loopVars>>

Next ==
    \/ Mount
    \/ startNewGame
    \/ Guess
    \/ AdvanceTimer
    \/ EnableTimer

Spec == Init /\ [][Next]_vars

\* The browser runs every scheduled setTimeout callback: a callback at the
\* head of the queue stays there until it fires.
FairSpec == Spec /\ WF_vars(AdvanceTimer) /\ WF_vars(EnableTimer)

-----------------------------------------------------------------------------
(* The resetGame call of the mount effect, its while loop (lines 37-42)    *)
(* run one iteration a step.                                               *)

\* The draws an iteration chooses from.
LoopDraws == { AllDraws[i] : i \in 1..MaxLoopDraws }

\* The sampled draws of lines 32-33, <<hue, sat, light>>, of LoopSpec: with
\* the first the target equals the decoy of draw <<15, 0, 0>>, with the
\* second that of draw <<15, 29, 19>>, and with the third no decoy.
LoopTargetDraws == { <<359, 0, 0>>, <<0, 29, 19>>, <<200, 29, 0>> }

\* resetGame has run lines 32-34: baseHue, newTargetColor and options are set.
LoopInit ==
    /\ targetColor = ""
    /\ colorOptions = <<>>
    /\ score = 0
    /\ gameStatus = NoMsg
    /\ isAnimating = FALSE
    /\ textColor = Gray
    /\ timers = <<>>
    /\ mounted = FALSE
    /\ roundScored = 0
    /\ lastEvent = [op |-> "init", color |-> "", animating |-> FALSE]
    /\ loopColor = ""
    /\ pc = "loop"
    /\ \E t \in LoopTargetDraws :
           /\ baseHue = t[1]
           /\ loopOptions = <<generateRandomColor(t[1], t[2], t[3])>>
           /\ genColors = {generateRandomColorLocals(t[1], t[2], t[3])}
    /\ rejectedColors = {}

\* One iteration of the while loop, lines 37-42, with draw d.
loopIteration(d) ==
    /\ pc = "loop"
    /\ Len(loopOptions) < NumOptions
    /\ loopColor' = generateSimilarColor(baseHue, d)
    /\ loopOptions' = IF ~includes(loopOptions, loopColor')
                  THEN Append(loopOptions, loopColor')
                  ELSE loopOptions
    /\ genColors' = genColors \cup
                       {generateRandomColorLocals(similarHue(baseHue, d[1]),
                                                  d[2], d[3])}
    /\ rejectedColors' = IF ~includes(loopOptions, loopColor')
                         THEN rejectedColors
                         ELSE rejectedColors \cup {loopColor'}
    /\ UNCHANGED <<cells, timers, mounted, baseHue, roundScored, lastEvent, pc>>

\* An iteration whose colour is pushed.
LoopPush ==
    \E d \in LoopDraws :
        /\ ~includes(loopOptions, generateSimilarColor(baseHue, d))
        /\ loopIteration(d)

\* An iteration whose colour is rejected as already in options.  Nothing
\* limits the number of such iterations: the loop may draw the same
\* duplicate again and again.
LoopReject ==
    \E d \in LoopDraws :
        /\ includes(loopOptions, generateSimilarColor(baseHue, d))
        /\ loopIteration(d)

\* The loop has exited: lines 45-52 and the end of the mount effect.
LoopExit ==
    /\ pc = "loop"
    /\ ~(Len(loopOptions) < NumOptions)
    /\ \E p \in ShufflePerms : colorOptions' = shuffle(loopOptions, p)
    /\ targetColor' = loopOptions[1]
    /\ gameStatus' = NoMsg
    /\ isAnimating' = FALSE
    /\ textColor' = Gray
    /\ mounted' = TRUE
    /\ lastEvent' = [op |-> "mount", color |-> "", animating |-> isAnimating]
    /\ pc' = "done"
    /\ UNCHANGED <<score, timers, baseHue, genColors, rejectedColors,
                   roundScored, loopOptions, loopColor>>

LoopNext ==
    \/ LoopPush
    \/ LoopReject
    \/ LoopExit

\* Fair draws: the loop does not draw colours already in options forever
\* while a colour not yet in options can be drawn; and the code after the
\* loop runs.
LoopSpec ==
    LoopInit /\ [][LoopNext]_vars /\ WF_vars(LoopPush) /\ WF_vars(LoopExit)

-----------------------------------------------------------------------------
(* Vocabulary of the properties.                                           *)

TypeOK ==
    /\ score \in 0..MaxScore
    /\ isAnimating \in BOOLEAN
    /\ Len(timers) <= MaxTimers

\* The current round is valid: 6 candidates, the target exactly once, no two
\* candidates equal.
ValidRound ==
    /\ Len(colorOptions) = NumOptions
    /\ Cardinality({i \in 1..Len(colorOptions) :
                        colorOptions[i] = targetColor}) = 1
    /\ \A i, j \in 1..Len(colorOptions) :
           i # j => colorOptions[i] # colorOptions[j]

\* The step is a call of handleGuess.
GuessStep == lastEvent'.op = "handleGuess"

\* The step is a call of handleGuess on a round accepting input.
AcceptedGuessStep == GuessStep /\ ~lastEvent'.animating

\* h lies within 15 degrees of base on the hue circle.
NearHue(h, base) ==
    /\ h \in 0..(HueRange - 1)
    /\ \E k \in (0 - VariationOffset)..VariationOffset :
           h = (base + k) % HueRange

-----------------------------------------------------------------------------
(* C1: every round produced by resetGame (on mount, on auto-advance, on    *)
(* New Game) has exactly 6 candidates, contains the target exactly once    *)
(* and has no two equal candidates, in every state once the first round    *)
(* exists.                                                                 *)
C1_RoundValid == mounted => ValidRound

\* A round published by the auto-advance timer whose decoy loop rejected at
\* least one draw as a duplicate.
C1_Witness ==
    /\ lastEvent.op = "advanceTimer"
    /\ rejectedColors # {}
    /\ \A c \in rejectedColors : includes(colorOptions, c)
    /\ ValidRound

(* C2: the score is incremented at most once for any single round, over    *)
(* every interleaving of guesses, New Game clicks and timer firings.       *)
C2_NoDoubleCount == roundScored <= 1

(* C3: on a round accepting input, handleGuess(targetColor) yields Correct *)
(* and increases score by exactly 1, whatever the score and the history.   *)
C3_CorrectGuess ==
    [][(AcceptedGuessStep /\ lastEvent'.color = targetColor)
          => (score' = score + 1 /\ gameStatus' = CorrectMsg)]_vars

\* A second correct guess, made after an earlier round was won.
C3_Witness ==
    /\ lastEvent.op = "handleGuess"
    /\ ~lastEvent.animating
    /\ lastEvent.color = targetColor
    /\ gameStatus = CorrectMsg
    /\ score = 2

(* C4 (as stated): handleGuess(color) with any color different from        *)
(* targetColor, in the candidate sequence or not, yields the Incorrect     *)
(* outcome and leaves score, targetColor and colorOptions unchanged.       *)
C4_AnyWrongGuess ==
    [][(GuessStep /\ lastEvent'.color # targetColor)
          => /\ gameStatus' = WrongMsg
             /\ UNCHANGED <<score, targetColor, colorOptions>>]_vars

(* C4 (amended): handleGuess(color) with any color different from          *)
(* targetColor, in the candidate sequence or not, leaves score,            *)
(* targetColor and colorOptions unchanged; called while isAnimating is     *)
(* false it yields the Incorrect outcome, and called while isAnimating is  *)
(* true it yields no outcome: the status message stays as it was.          *)
C4_WrongGuess ==
    [][(GuessStep /\ lastEvent'.color # targetColor)
          => /\ UNCHANGED <<score, targetColor, colorOptions>>
             /\ ~lastEvent'.animating => gameStatus' = WrongMsg
             /\ lastEvent'.animating => UNCHANGED gameStatus]_vars

\* A wrong guess with a colour outside the candidates, at a non-zero score.
C4_Witness ==
    /\ lastEvent.op = "handleGuess"
    /\ ~lastEvent.animating
    /\ lastEvent.color = ForeignColor
    /\ ~includes(colorOptions, ForeignColor)
    /\ gameStatus = WrongMsg
    /\ score = 1

(* C5: in every step the score stays the same, increases by exactly 1 in a *)
(* step that resolves a guess as Correct, or is set to 0 by startNewGame;  *)
(* it is never negative, and no timer step changes it.                     *)
C5_ScoreSteps ==
    /\ [](score >= 0)
    /\ [][\/ score' = score
          \/ /\ score' = score + 1
             /\ AcceptedGuessStep
             /\ lastEvent'.color = targetColor
             /\ gameStatus' = CorrectMsg
          \/ /\ score' = 0
             /\ lastEvent'.op = "startNewGame"]_vars

\* The auto-advance timer has replaced the round and the score is kept.
C5_Witness ==
    /\ lastEvent.op = "advanceTimer"
    /\ score = 2
    /\ roundScored = 0

(* C6: once a round has been resolved as Correct, every further guess on   *)
(* that round changes no state until resetGame starts a new round.         *)
C6_ResolvedIgnoresGuesses ==
    [][(roundScored >= 1 /\ GuessStep) => UNCHANGED <<cells, timers>>]_vars

(* C7: after startNewGame, from any reachable state, the score is 0, the   *)
(* round is a fresh valid round, the status message is cleared and input   *)
(* is enabled.                                                             *)
C7_NewGame ==
    lastEvent.op = "startNewGame"
        => /\ score = 0
           /\ ValidRound
           /\ roundScored = 0
           /\ gameStatus = NoMsg
           /\ ~isAnimating

\* New Game clicked during the feedback window of a correct guess: the
\* auto-advance timer is still pending.
C7_Witness ==
    /\ lastEvent.op = "startNewGame"
    /\ lastEvent.animating
    /\ timers # <<>>
    /\ Head(timers) = "advance"
    /\ score = 0

(* C8: a round on which no correct guess has been made is replaced only by *)
(* startNewGame; no timer firing replaces an unresolved round.             *)
C8_UnresolvedRoundKept ==
    [][(mounted /\ roundScored = 0 /\ lastEvent'.op # "startNewGame")
          => /\ UNCHANGED <<targetColor, colorOptions>>
             /\ lastEvent'.op # "advanceTimer"]_vars

(* C9: a guess whose colour is malformed (empty, or with out-of-range      *)
(* components) is reported as InvalidColor and leaves all state unchanged; *)
(* it is not treated as an ordinary Incorrect guess, so no message is      *)
(* shown, input is not disabled and no feedback timer is scheduled.        *)
C9_MalformedIsNoOp ==
    [][(GuessStep /\ lastEvent'.color \in MalformedColors)
          => UNCHANGED <<cells, timers>>]_vars

(* C10: every decoy of a round with base hue h has a hue d in [0,360) with *)
(* d = (h + k) mod 360 for some k in [-15,15], wrap-around included.       *)
C10_DecoyHues ==
    mounted =>
        /\ \A g \in genColors : NearHue(g.hue, baseHue)
        /\ \A j \in 1..Len(colorOptions) :
               colorOptions[j] # targetColor =>
                   \E g \in genColors :
                       /\ colorOptions[j] = hsl(g.hue, g.saturation,
                                                g.lightness)
                       /\ NearHue(g.hue, baseHue)

\* A round with base hue 359 one of whose candidates has hue 13, and (in
\* another round) base hue 0 with a candidate of hue 345.
C10_Witness ==
    /\ mounted
    /\ baseHue = 359
    /\ \E g \in genColors :
           /\ g.hue = 13
           /\ hsl(13, g.saturation, g.lightness) # targetColor
           /\ includes(colorOptions, hsl(13, g.saturation, g.lightness))

(* C11: every generated colour (target and decoys) has an integer hue in   *)
(* [0,360), saturation in [70,100) and lightness in [45,65), and the       *)
(* target colour's hue is the round's base hue.                            *)
C11_ColorRanges ==
    mounted =>
        /\ \A g \in genColors :
               /\ g.hue \in 0..(HueRange - 1)
               /\ g.saturation \in SatBase..(SatBase + SatRange - 1)
               /\ g.lightness \in LightBase..(LightBase + LightRange - 1)
        /\ \E g \in genColors :
               /\ g.hue = baseHue
               /\ targetColor = hsl(g.hue, g.saturation, g.lightness)
        /\ \A j \in 1..Len(colorOptions) :
               \E g \in genColors :
                   colorOptions[j] = hsl(g.hue, g.saturation, g.lightness)

\* Base hue 200 with the largest saturation and lightness draws, and a decoy
\* with the smallest ones.
C11_Witness ==
    /\ mounted
    /\ baseHue = 200
    /\ targetColor = "hsl(200, 99%, 64%)"
    /\ includes(colorOptions, "hsl(185, 70%, 45%)")

(* C14: handleGuess invoked while isAnimating is true is a no-op for every *)
(* colour, the target included: score, targetColor, colorOptions,          *)
(* gameStatus and isAnimating are unchanged and no timer is scheduled.     *)
C14_AnimatingGuessNoOp ==
    [][(GuessStep /\ lastEvent'.animating)
          => UNCHANGED <<targetColor, colorOptions, score, gameStatus,
                         isAnimating, textColor, timers>>]_vars

\* The target was guessed while input was disabled after a wrong guess.
C14_Witness ==
    /\ lastEvent.op = "handleGuess"
    /\ lastEvent.animating
    /\ lastEvent.color = targetColor
    /\ isAnimating
    /\ gameStatus = WrongMsg
    /\ roundScored = 0

(* C16: input is enabled only when no feedback is in flight: if            *)
(* isAnimating is false no feedback timer is pending, and at most one      *)
(* feedback timer is pending at any time, also when New Game is clicked    *)
(* during the feedback window.                                             *)
C16_EnabledMeansNoTimer ==
    /\ ~isAnimating => timers = <<>>
    /\ Len(timers) <= 1

(* C12: after an incorrect guess the round stays open for retry: with no   *)
(* user event in between, the timer firings that follow the guess leave    *)
(* targetColor and colorOptions unchanged, and input is re-enabled by the  *)
(* wrong-guess timer (and by no other timer).                              *)
C12_RetryAfterWrongGuess ==
    [][(/\ lastEvent.op = "handleGuess"
        /\ ~lastEvent.animating
        /\ lastEvent.color # targetColor
        /\ lastEvent'.op \in {"advanceTimer", "enableTimer"})
          => /\ UNCHANGED <<targetColor, colorOptions>>
             /\ ~isAnimating' => lastEvent'.op = "enableTimer"]_vars

(* C13: after every correct guess a new round eventually begins without    *)
(* user action: the deferred callback fires, and when it has run resetGame *)
(* the round is a fresh valid round, the status message is cleared and     *)
(* isAnimating is false; input never stays disabled forever.               *)
C13_AutoAdvance ==
    /\ [](lastEvent.op = "advanceTimer"
            => /\ ValidRound
               /\ roundScored = 0
               /\ gameStatus = NoMsg
               /\ ~isAnimating)
    /\ (/\ lastEvent.op = "handleGuess"
        /\ ~lastEvent.animating
        /\ lastEvent.color = targetColor) ~> (lastEvent.op = "advanceTimer")
    /\ isAnimating ~> ~isAnimating

\* The auto-advance timer of the only correct guess has fired and no timer
\* is left.
C13_Witness ==
    /\ lastEvent.op = "advanceTimer"
    /\ lastEvent.animating
    /\ score = 1
    /\ timers = <<>>
    /\ ~isAnimating
    /\ ValidRound

(* C15: the decoy loop of resetGame terminates when the draws are fair,    *)
(* however often it rejects a colour already in options: it exits with     *)
(* exactly 5 decoys added to the target, and resetGame then publishes the  *)
(* round.                                                                  *)
C15_LoopTerminates ==
    /\ <>(pc = "done")
    /\ [](pc = "loop" => Len(loopOptions) <= NumOptions)
    /\ [](pc = "done"
            => /\ Len(loopOptions) = NumOptions
               /\ loopOptions[1] = targetColor
               /\ \A i \in 2..Len(loopOptions) : loopOptions[i] # targetColor
               /\ ValidRound)

\* resetGame has returned and published a round after iterations that
\* rejected the target and two of the decoys as duplicates; its last decoy
\* is the colour of the last iteration.
C15_Witness ==
    /\ pc = "done"
    /\ mounted
    /\ Len(loopOptions) = NumOptions
    /\ targetColor \in rejectedColors
    /\ Cardinality(rejectedColors) >= 3
    /\ loopColor = loopOptions[NumOptions]
    /\ ValidRound
====
